---- MODULE Spec2Model ----
(***************************************************************************)
(* Model of the bingo client (src/src/App.jsx): the WebSocket connection,  *)
(* the card store, the paced transmission queue, the protocol dispatcher   *)
(* with its word_selected marking, and the deferred best-card selector.    *)
(*                                                                         *)
(* React state is modelled at the granularity of one event-loop task: a    *)
(* handler, the state updaters it enqueues and the effects of the render   *)
(* that follows run as one atomic action.  Callbacks that the code hands   *)
(* to setTimeout / FileReader / WebSocket are separate actions, and each   *)
(* carries the values its closure captured when it was created.            *)
(*                                                                         *)
(* Spec is the whole machine.  SpecQueue, SpecConn, SpecPlay, SpecMarks,   *)
(* SpecRound, SpecBurst, SpecPhase, SpecFrame, SpecOther and SpecSelect    *)
(* are the same machine restricted to the handlers a group of properties   *)
(* is about, which keeps each state space small.  SpecDetect and SpecParse *)
(* apply detectLanguage and parseTxtFile alone to every input of a bounded *)
(* set.                                                                    *)
(***************************************************************************)
EXTENDS Integers, Sequences, FiniteSets, TLC

(* ------------------------------ bounds -------------------------------- *)
\* card objects created in a session
MaxCards == 4
\* card objects created in a session of the specifications without file uploads
MaxTypedCards == 2
\* FileReader reads pending at once
MaxReads == 1
\* selector callbacks pending at once
MaxSelTimers == 1
\* selector callbacks pending at once in a burst of word_selected messages
MaxBurst == 2
\* presses of the PLAY button that reach the socket
MaxPlays == 1
\* largest word count detectLanguage is applied to
MaxWordCount == 60
\* lines of a file parseTxtFile is applied to
MaxLines == 3

(* --------------------------- input alphabets --------------------------- *)
\* word tokens; WordName[i] is the i-th distinct word
WordName == <<"w1", "w2", "w3", "w4", "w5", "w6", "w7", "w8", "w9", "w10", "w11">>

TwoWords == <<"w1", "w2">>
\* ten words (a dutch card): w2 .. w11
TenWords == Tail(WordName)

\* manual-entry forms: [id |-> manualCardId, lines |-> manualInput split on '\n'];
\* "" is a blank field / blank line
ManualForms ==
  { [id |-> "a", lines |-> <<"w1", "", "w2">>],
    [id |-> "b", lines |-> TenWords],
    [id |-> "",  lines |-> TwoWords],
    [id |-> "a", lines |-> <<"", "">>] }

\* text files, as the sequence of their lines, each line already split on
\* whitespace (a blank line has no token)
Files ==
  { << <<"a", "w1", "w2">>, <<>>, <<"x">>, <<"b">> \o TenWords >>,
    << <<"c", "w2", "w3">> >>,
    << <<"x">>, <<>> >> }

\* lines of the files parseTxtFile is applied to alone: blank, one token,
\* an id with one word, with two words, with ten words
Lines ==
  { <<>>, <<"x">>, <<"a", "w1">>, <<"c", "w1", "w2">>, <<"b">> \o TenWords }

\* names typed in the start form ("" = empty field)
Names == {"", "Ana", "Bo"}
\* the same for sessions in which one name only is typed
FirstNames == {"", "Ana"}

\* inbound word_selected payloads; language is what data.language evaluates to:
\* the protocol message carries no such field, so it is Undefined
Undefined == "undefined"
CalledWords == {"w1", "w2"}
CardIdSets == { {"a"}, {"a", "b"}, {} }
Languages == {"spanish", "dutch"}

\* lists of winners' names; Null is the initial value of useState(null) and
\* Missing the value of a field the message does not carry
WinnerLists == { <<>>, <<"Ana">> }
Null == <<"null">>
Missing == <<Undefined>>
\* player counts the server announces
PlayerCounts == {2}
\* word_selected as the server broadcasts it: no language field, and every
\* card id listed
BroadcastWords ==
  { [ type |-> "word_selected", word |-> w, card_ids |-> {"a", "b"},
      language |-> Undefined ] : w \in CalledWords }
\* message types no case of the dispatcher names
OtherTypes == {"chat"}

(* ------------------------------- state -------------------------------- *)
VARIABLES
  socket,            \* socketRef.current: "null" or the socket's readyState
  socketReady,       \* useState socketReady
  registerName,      \* the name captured by the socket.onopen closure
  channels,          \* number of WebSocket objects constructed
  outbox,            \* messages handed to socket.send, in order
  reloadTimers,      \* pending setTimeout(reload, 2000) callbacks
  reloaded,          \* window.location.reload() has run: the session is over
  userName,
  showStartModal,
  bingoCards,        \* useState bingoCards (the Card Store)
  isTransmitting,    \* useState isTransmitting
  paceTimers,        \* pending 100 ms callbacks, each with what it reads of
                     \* its updatedCards: the cards' transmitted flags
  reads,             \* pending FileReader reads: [closure, content]
  selTimers,         \* pending setTimeout(..., 0) selector callbacks, each with
                     \* what it reads of its closure: per card of updated the
                     \* language and markedWords.length, and data.language
  selectedCardIndex,
  currentWord,
  currentLanguage,
  playerCount,
  gameStarted,
  showWinnersModal,
  winners,           \* useState winners: Null or the list of names
  showRoundModal,
  roundResults,
  detectArg,         \* detectLanguage applied alone: its argument
  detected,          \*   and what it returned ("" before the call)
  parseArg,          \* parseTxtFile applied alone: the file's lines, tokenized
  parsed,            \*   and the cards it returned
  event,             \* the inbound message dispatched last (history)
  calls,             \* the sendBingoCard calls so far: the card's uid and
                     \* whether the socket was OPEN (history)
  nextUid            \* identity of the next card object created (history)

vars == << socket, socketReady, registerName, channels, outbox, reloadTimers,
           reloaded, userName, showStartModal, bingoCards, isTransmitting,
           paceTimers, reads, selTimers, selectedCardIndex, currentWord,
           currentLanguage, playerCount, gameStarted, showWinnersModal, winners,
           showRoundModal, roundResults, detectArg, detected, parseArg, parsed,
           event, calls, nextUid >>

connVars == << socket, socketReady, registerName, channels, reloadTimers,
               userName, showStartModal >>
roundVars == << selTimers, selectedCardIndex, currentWord, currentLanguage >>
gameVars == << playerCount, gameStarted, showWinnersModal, winners,
               showRoundModal, roundResults >>
pureVars == << detectArg, detected, parseArg, parsed >>

(* ---------------------------- pure helpers ----------------------------- *)
Includes(seq, x) == \E i \in 1..Len(seq) : seq[i] = x

RECURSIVE Filter(_, _)
Filter(seq, keep) ==
  IF seq = <<>> THEN <<>>
  ELSE IF Head(seq) \in keep THEN <<Head(seq)>> \o Filter(Tail(seq), keep)
       ELSE Filter(Tail(seq), keep)

NonBlank(seq) == Filter(seq, {seq[i] : i \in 1..Len(seq)} \ {""})

LANGUAGE_CONFIGS ==
  << [lang |-> "spanish",    rows |-> 4, cols |-> 6, total |-> 24],
     [lang |-> "english",    rows |-> 2, cols |-> 7, total |-> 14],
     [lang |-> "portuguese", rows |-> 5, cols |-> 4, total |-> 20],
     [lang |-> "dutch",      rows |-> 2, cols |-> 5, total |-> 10] >>

\* detectLanguage matching the first profile the words fit in
detectLanguage_fits(wordCount) ==
  LET hits == { i \in 1..Len(LANGUAGE_CONFIGS) :
                  LANGUAGE_CONFIGS[i].total >= wordCount }
  IN IF hits = {} THEN "spanish"
     ELSE LANGUAGE_CONFIGS[CHOOSE i \in hits : \A j \in hits : i <= j].lang

detectLanguage(wordCount) ==
  LET hits == { i \in 1..Len(LANGUAGE_CONFIGS) :
                  LANGUAGE_CONFIGS[i].total = wordCount }
  IN IF hits = {} THEN "spanish"
     ELSE LANGUAGE_CONFIGS[CHOOSE i \in hits : \A j \in hits : i <= j].lang

\* a freshly created card object; uid is its identity (history only)
NewCard(uid, id, words) ==
  [ uid |-> uid, id |-> id, words |-> words,
    language |-> detectLanguage(Len(words)),
    transmitted |-> FALSE, markedWords |-> <<>> ]

\* the loop of parseTxtFile with break in place of continue
RECURSIVE parseLines_break(_, _)
parseLines_break(lines, uid) ==
  IF lines = <<>> THEN <<>>
  ELSE LET parts == Head(lines) IN
       IF Len(parts) < 2 THEN <<>>
       ELSE <<NewCard(uid, parts[1], Tail(parts))>>
              \o parseLines_break(Tail(lines), uid + 1)

RECURSIVE parseLines(_, _)
parseLines(lines, uid) ==
  IF lines = <<>> THEN <<>>
  ELSE LET parts == Head(lines) IN
       IF Len(parts) < 2 THEN parseLines(Tail(lines), uid)
       ELSE <<NewCard(uid, parts[1], Tail(parts))>>
              \o parseLines(Tail(lines), uid + 1)

parseTxtFile(content, uid) == parseLines(content, uid)

(* ------------------------- Transmission Queue -------------------------- *)
\* prevCards.findIndex(card => !card.transmitted); 0 stands for -1
findUntransmitted(cards) ==
  LET idx == { i \in 1..Len(cards) : ~cards[i].transmitted }
  IN IF idx = {} THEN 0 ELSE CHOOSE i \in idx : \A j \in idx : i <= j

hasUntransmitted(cards) == \E i \in 1..Len(cards) : ~cards[i].transmitted

\* sendBingoCard without the readyState test: the message is handed to the
\* socket whatever its state
sendBingoCard_unchecked(card, box) ==
  Append(box, [ type |-> "bingo_card", uid |-> card.uid, id |-> card.id,
                words |-> card.words, language |-> card.language ])

\* sendBingoCard: the message goes out only on an OPEN socket, else it is dropped
sendBingoCard(card, box) ==
  IF socket = "OPEN"
  THEN Append(box, [ type |-> "bingo_card", uid |-> card.uid, id |-> card.id,
                     words |-> card.words, language |-> card.language ])
  ELSE box

\* what the 100 ms callback reads of the updatedCards it closes over
transmittedFlags(cards) == [ i \in 1..Len(cards) |-> cards[i].transmitted ]

\* the setBingoCards updater of transmitNextCard, run on the current store:
\* q = [cards, transmitting, box, timers, calls] is the state it reads and
\* returns
transmitNextCard(q) ==
  LET untransmittedIndex == findUntransmitted(q.cards) IN
  IF untransmittedIndex = 0
  THEN [q EXCEPT !.transmitting = FALSE]
  ELSE LET updatedCards ==
             [q.cards EXCEPT ![untransmittedIndex].transmitted = TRUE]
       IN [ cards        |-> updatedCards,
            transmitting |-> q.transmitting,
            calls        |-> Append(q.calls,
                                    [ uid  |-> q.cards[untransmittedIndex].uid,
                                      open |-> socket = "OPEN" ]),
            box          |-> sendBingoCard(q.cards[untransmittedIndex], q.box),
            timers       |-> Append(q.timers, transmittedFlags(updatedCards)) ]

\* useEffect(..., [bingoCards.length]) after a render in which the store went
\* from oldLen cards to q.cards
lengthEffect(oldLen, q) ==
  IF Len(q.cards) = oldLen \/ Len(q.cards) = 0 THEN q
  ELSE IF hasUntransmitted(q.cards) /\ ~q.transmitting
       THEN transmitNextCard([q EXCEPT !.transmitting = TRUE])
       ELSE q

\* the 100 ms callback: it decides on the updatedCards its closure holds
\* (flags = their transmitted flags), not on the current store
pacingCallback(flags, q) ==
  IF \E i \in 1..Len(flags) : ~flags[i]
  THEN transmitNextCard(q)
  ELSE [q EXCEPT !.transmitting = FALSE]

Queue == [ cards |-> bingoCards, transmitting |-> isTransmitting,
           box |-> outbox, timers |-> paceTimers, calls |-> calls ]

SetQueue(q) ==
  /\ bingoCards' = q.cards
  /\ isTransmitting' = q.transmitting
  /\ outbox' = q.box
  /\ paceTimers' = q.timers
  /\ calls' = q.calls

Ev(type) == [ type |-> type, word |-> "", card_ids |-> {}, language |-> "" ]

(* ------------------------------ Init ----------------------------------- *)
\* the component's state after construction
InitApp ==
  /\ socket = "null"
  /\ socketReady = FALSE
  /\ registerName = ""
  /\ channels = 0
  /\ outbox = <<>>
  /\ reloadTimers = 0
  /\ reloaded = FALSE
  /\ userName = ""
  /\ showStartModal = TRUE
  /\ bingoCards = <<>>
  /\ isTransmitting = FALSE
  /\ paceTimers = <<>>
  /\ reads = <<>>
  /\ selTimers = <<>>
  /\ selectedCardIndex = 0
  /\ currentWord = ""
  /\ currentLanguage = ""
  /\ playerCount = 0
  /\ gameStarted = FALSE
  /\ showWinnersModal = FALSE
  /\ winners = Null
  /\ showRoundModal = FALSE
  /\ roundResults = [ winners |-> <<>>, language |-> "" ]
  /\ event = Ev("none")
  /\ calls = <<>>
  /\ nextUid = 1

\* no result yet of detectLanguage / of parseTxtFile applied alone
NotDetected == ""
NotParsed == << NewCard(0, "", <<>>) >>

Init ==
  /\ InitApp
  /\ detectArg = 0
  /\ detected = NotDetected
  /\ parseArg = <<>>
  /\ parsed = NotParsed

(* ------------------------- Connection Manager -------------------------- *)
\* setupWebSocket without its guard on socketRef.current
setupWebSocket_unguarded(name, s) ==
  [ socket |-> "CONNECTING", name |-> name, channels |-> s.channels + 1 ]

\* setupWebSocket(name): s = [socket, name, channels] before and after
setupWebSocket(name, s) ==
  IF s.socket # "null" THEN s
  ELSE [ socket |-> "CONNECTING", name |-> name, channels |-> s.channels + 1 ]

registerUser(name) ==
  /\ ~reloaded
  /\ UNCHANGED << gameVars, pureVars >>
  /\ UNCHANGED << event, calls >>
  /\ IF name = ""
     THEN UNCHANGED << socket, registerName, channels, userName, showStartModal >>
     ELSE LET s == setupWebSocket(name, [ socket |-> socket,
                     name |-> registerName, channels |-> channels ])
          IN /\ userName' = name
             /\ socket' = s.socket
             /\ registerName' = s.name
             /\ channels' = s.channels
             /\ showStartModal' = FALSE
  /\ UNCHANGED << socketReady, outbox, reloadTimers, reloaded, bingoCards,
                  isTransmitting, paceTimers, reads, nextUid >>
  /\ UNCHANGED roundVars

onopen ==
  /\ ~reloaded
  /\ UNCHANGED << gameVars, pureVars >>
  /\ UNCHANGED << event, calls >>
  /\ socket = "CONNECTING"
  /\ socket' = "OPEN"
  /\ socketReady' = TRUE
  /\ outbox' = Append(outbox, [ type |-> "register", uid |-> 0, id |-> registerName,
                                words |-> <<>>, language |-> "" ])
  /\ UNCHANGED << registerName, channels, reloadTimers, reloaded, userName,
                  showStartModal, bingoCards, isTransmitting, paceTimers, reads,
                  nextUid >>
  /\ UNCHANGED roundVars

\* socket.onerror: the socket has failed (its readyState is no longer OPEN);
\* the close event has not been delivered yet
onerror ==
  /\ ~reloaded
  /\ UNCHANGED << gameVars, pureVars >>
  /\ UNCHANGED << event, calls >>
  /\ socket \in {"CONNECTING", "OPEN"}
  /\ socket' = "FAILED"
  /\ socketReady' = FALSE
  /\ UNCHANGED << registerName, channels, outbox, reloadTimers, reloaded, userName,
                  showStartModal, bingoCards, isTransmitting, paceTimers, reads,
                  nextUid >>
  /\ UNCHANGED roundVars

onclose ==
  /\ ~reloaded
  /\ UNCHANGED << gameVars, pureVars >>
  /\ UNCHANGED << event, calls >>
  /\ socket \in {"CONNECTING", "OPEN", "FAILED"}
  /\ socket' = "CLOSED"
  /\ socketReady' = FALSE
  /\ reloadTimers' = reloadTimers + 1
  /\ UNCHANGED << registerName, channels, outbox, reloaded, userName,
                  showStartModal, bingoCards, isTransmitting, paceTimers, reads,
                  nextUid >>
  /\ UNCHANGED roundVars

\* window.location.reload(): the page, its state and every pending timer are
\* discarded; the session that follows is a new one
Reload ==
  /\ socket' = "null"
  /\ socketReady' = FALSE
  /\ registerName' = ""
  /\ channels' = 0
  /\ outbox' = <<>>
  /\ reloadTimers' = 0
  /\ reloaded' = TRUE
  /\ userName' = ""
  /\ showStartModal' = TRUE
  /\ bingoCards' = <<>>
  /\ isTransmitting' = FALSE
  /\ paceTimers' = <<>>
  /\ reads' = <<>>
  /\ selTimers' = <<>>
  /\ selectedCardIndex' = 0
  /\ currentWord' = ""
  /\ currentLanguage' = ""
  /\ playerCount' = 0
  /\ gameStarted' = FALSE
  /\ showWinnersModal' = FALSE
  /\ winners' = Null
  /\ showRoundModal' = FALSE
  /\ roundResults' = [ winners |-> <<>>, language |-> "" ]
  /\ UNCHANGED pureVars
  /\ event' = Ev("none")
  /\ calls' = <<>>
  /\ nextUid' = 1

reloadCallback ==
  /\ ~reloaded
  /\ reloadTimers > 0
  /\ Reload

(* ----------------------------- Card Store ------------------------------ *)
\* the load modal, which holds the manual form and the file input, is rendered
\* only once the start modal has been dismissed by registerUser
handleManualSubmit(form) ==
  /\ ~reloaded
  /\ UNCHANGED << gameVars, pureVars >>
  /\ ~showStartModal
  /\ UNCHANGED event
  /\ LET words == NonBlank(form.lines) IN
     IF form.id = "" \/ words = <<>> \/ nextUid > MaxCards
     THEN UNCHANGED << bingoCards, isTransmitting, outbox, paceTimers, calls, nextUid >>
     ELSE LET card == NewCard(nextUid, form.id, words) IN
          /\ SetQueue(lengthEffect(Len(bingoCards),
                        [Queue EXCEPT !.cards = Append(bingoCards, card)]))
          /\ nextUid' = nextUid + 1
  /\ UNCHANGED << socketReady, reloaded, reads >>
  /\ UNCHANGED connVars
  /\ UNCHANGED roundVars

\* handleFileUpload: reader.onload is created here and closes over the
\* bingoCards of the current render
handleFileUpload(file) ==
  /\ ~reloaded
  /\ UNCHANGED << gameVars, pureVars >>
  /\ ~showStartModal
  /\ UNCHANGED << event, calls >>
  /\ Len(reads) < MaxReads
  /\ reads' = Append(reads, [ closure |-> bingoCards, content |-> file ])
  /\ UNCHANGED << socketReady, reloaded, bingoCards, isTransmitting, outbox,
                  paceTimers, nextUid >>
  /\ UNCHANGED connVars
  /\ UNCHANGED roundVars

RemoveAt(seq, k) == SubSeq(seq, 1, k - 1) \o SubSeq(seq, k + 1, Len(seq))

\* reader.onload of the k-th pending read
readerOnload(k) ==
  /\ ~reloaded
  /\ UNCHANGED << gameVars, pureVars >>
  /\ UNCHANGED event
  /\ k \in 1..Len(reads)
  /\ nextUid + Len(parseTxtFile(reads[k].content, nextUid)) <= MaxCards + 1
  /\ reads' = RemoveAt(reads, k)
  /\ LET newCards == parseTxtFile(reads[k].content, nextUid) IN
     IF Len(newCards) > 0
     THEN /\ SetQueue(lengthEffect(Len(bingoCards),
                        [Queue EXCEPT !.cards = reads[k].closure \o newCards]))
          /\ nextUid' = nextUid + Len(newCards)
     ELSE UNCHANGED << bingoCards, isTransmitting, outbox, paceTimers, calls, nextUid >>
  /\ UNCHANGED << socketReady, reloaded >>
  /\ UNCHANGED connVars
  /\ UNCHANGED roundVars

\* the oldest pending 100 ms callback fires
pacingTimer ==
  /\ ~reloaded
  /\ UNCHANGED << gameVars, pureVars >>
  /\ UNCHANGED event
  /\ paceTimers # <<>>
  /\ SetQueue(pacingCallback(Head(paceTimers),
                             [Queue EXCEPT !.timers = Tail(paceTimers)]))
  /\ UNCHANGED << socketReady, reloaded, reads, nextUid >>
  /\ UNCHANGED connVars
  /\ UNCHANGED roundVars

\* play messages handed to the socket so far
playCount == Cardinality({ i \in 1..Len(outbox) : outbox[i].type = "play" })

\* the PLAY button, rendered before the game starts once every card of a
\* non-empty store is flagged transmitted
handlePlay ==
  /\ ~reloaded
  /\ UNCHANGED << gameVars, pureVars >>
  /\ UNCHANGED << event, calls >>
  /\ ~showStartModal
  /\ ~gameStarted
  /\ bingoCards # <<>>
  /\ ~hasUntransmitted(bingoCards)
  /\ playCount < MaxPlays
  /\ outbox' = IF socket = "OPEN"
               THEN Append(outbox, [ type |-> "play", uid |-> 0, id |-> "",
                                     words |-> <<>>, language |-> "" ])
               ELSE outbox
  /\ UNCHANGED << socketReady, reloaded, bingoCards, isTransmitting, paceTimers,
                  reads, nextUid >>
  /\ UNCHANGED connVars
  /\ UNCHANGED roundVars

\* a click on the index-th card of the sidebar (0-based)
selectCard(index) ==
  /\ ~reloaded
  /\ UNCHANGED << gameVars, pureVars >>
  /\ UNCHANGED << event, calls >>
  /\ ~showStartModal
  /\ index \in 0..(Len(bingoCards) - 1)
  /\ selectedCardIndex' = index
  /\ UNCHANGED << outbox, reloaded, bingoCards, isTransmitting, paceTimers, reads,
                  selTimers, currentWord, currentLanguage, nextUid >>
  /\ UNCHANGED connVars

(* ------------------- Protocol Dispatcher and selector ------------------ *)
\* markCard without the card.words.includes(data.word) test
markCard_anyWord(card, data) ==
  IF card.id \in data.card_ids /\ ~Includes(card.markedWords, data.word)
  THEN [card EXCEPT !.markedWords = Append(card.markedWords, data.word)]
  ELSE card

\* markCard without the !markedWords.includes(data.word) test
markCard_remark(card, data) ==
  IF card.id \in data.card_ids /\ Includes(card.words, data.word)
  THEN [card EXCEPT !.markedWords = Append(card.markedWords, data.word)]
  ELSE card

\* the prevCards.map callback of case 'word_selected'
markCard(card, data) ==
  IF /\ card.id \in data.card_ids
     /\ Includes(card.words, data.word)
     /\ ~Includes(card.markedWords, data.word)
  THEN [card EXCEPT !.markedWords = Append(card.markedWords, data.word)]
  ELSE card

markCards(prevCards, data) ==
  [ i \in 1..Len(prevCards) |-> markCard(prevCards[i], data) ]

\* what the selector callback reads of the updated cards it closes over
markedCounts(cards) ==
  [ i \in 1..Len(cards) |-> [ language |-> cards[i].language,
                              markedCount |-> Len(cards[i].markedWords) ] ]

\* the iteration with >= in place of > in both comparisons
selectorStep_lastWins(acc, card, index, language) ==
  LET markedCount == card.markedCount
      a == IF markedCount >= acc.maxMarked
           THEN [acc EXCEPT !.maxMarked = markedCount, !.bestIndex = index]
           ELSE acc
  IN IF card.language = language /\ markedCount >= a.maxMarkedForLanguage
     THEN [a EXCEPT !.maxMarkedForLanguage = markedCount,
                    !.bestIndexForLanguage = index]
     ELSE a

\* one iteration of updated.forEach((card, index) => ...); index is 0-based
selectorStep(acc, card, index, language) ==
  LET markedCount == card.markedCount
      a == IF markedCount > acc.maxMarked
           THEN [acc EXCEPT !.maxMarked = markedCount, !.bestIndex = index]
           ELSE acc
  IN IF card.language = language /\ markedCount > a.maxMarkedForLanguage
     THEN [a EXCEPT !.maxMarkedForLanguage = markedCount,
                    !.bestIndexForLanguage = index]
     ELSE a

RECURSIVE selectorScan(_, _, _, _)
selectorScan(acc, updated, index, language) ==
  IF index >= Len(updated) THEN acc
  ELSE selectorScan(selectorStep(acc, updated[index + 1], index, language),
                    updated, index + 1, language)

\* the setTimeout(..., 0) callback: updated (as markedCounts) and language
\* (data.language) are the values its closure holds
selectBestCard(updated, language) ==
  LET r == selectorScan([ maxMarked |-> 0, bestIndex |-> 0,
                          maxMarkedForLanguage |-> 0, bestIndexForLanguage |-> 0 ],
                        updated, 0, language)
  IN IF r.maxMarkedForLanguage > 0 THEN r.bestIndexForLanguage ELSE r.bestIndex

WordSelectedData ==
  [ type : {"word_selected"}, word : CalledWords, card_ids : CardIdSets,
    language : {Undefined, "dutch"} ]

word_selected(data) ==
  /\ ~reloaded
  /\ UNCHANGED << gameVars, pureVars >>
  /\ UNCHANGED calls
  /\ socket = "OPEN"
  /\ event' = data
  /\ currentWord' = data.word
  /\ LET updated == markCards(bingoCards, data) IN
     /\ bingoCards' = updated
     /\ selTimers' = Append(selTimers, [ updated |-> markedCounts(updated),
                                         language |-> data.language ])
  /\ UNCHANGED << outbox, reloaded, isTransmitting, paceTimers, reads,
                  selectedCardIndex, currentLanguage, nextUid >>
  /\ UNCHANGED connVars

round_start(language) ==
  /\ ~reloaded
  /\ UNCHANGED << gameVars, pureVars >>
  /\ UNCHANGED calls
  /\ socket = "OPEN"
  /\ currentLanguage' = language
  /\ event' = [Ev("round_start") EXCEPT !.language = language]
  /\ UNCHANGED << outbox, reloaded, bingoCards, isTransmitting, paceTimers, reads,
                  selTimers, selectedCardIndex, currentWord, nextUid >>
  /\ UNCHANGED connVars

\* word_selected while fewer than MaxSelTimers selector callbacks are pending
wordSelectedPaced(data) == Len(selTimers) < MaxSelTimers /\ word_selected(data)

\* word_selected in a burst: up to MaxBurst selector callbacks pending
wordSelectedBurst(data) == Len(selTimers) < MaxBurst /\ word_selected(data)

player_count(count) ==
  /\ ~reloaded
  /\ socket = "OPEN"
  /\ playerCount' = count
  /\ event' = [ type |-> "player_count", count |-> count ]
  /\ UNCHANGED << gameStarted, showWinnersModal, winners, showRoundModal,
                  roundResults >>
  /\ UNCHANGED << outbox, reloaded, bingoCards, isTransmitting, paceTimers, reads,
                  calls, nextUid >>
  /\ UNCHANGED << connVars, roundVars, pureVars >>

game_started ==
  /\ ~reloaded
  /\ socket = "OPEN"
  /\ gameStarted' = TRUE
  /\ event' = [ type |-> "game_started" ]
  /\ UNCHANGED << playerCount, showWinnersModal, winners, showRoundModal,
                  roundResults >>
  /\ UNCHANGED << outbox, reloaded, bingoCards, isTransmitting, paceTimers, reads,
                  calls, nextUid >>
  /\ UNCHANGED << connVars, roundVars, pureVars >>

\* data.winners || []
orEmpty(list) == IF list \in {Missing, Null} THEN <<>> ELSE list

RoundEndData ==
  [ type : {"round_end"}, language : Languages,
    winners : WinnerLists \cup {Missing} ]

\* round_end that also clears the round's language
round_end_clearsLanguage(data) ==
  /\ ~reloaded
  /\ socket = "OPEN"
  /\ currentWord' = ""
  /\ currentLanguage' = ""
  /\ roundResults' = [ winners |-> orEmpty(data.winners),
                       language |-> data.language ]
  /\ showRoundModal' = TRUE
  /\ event' = data
  /\ UNCHANGED << playerCount, gameStarted, showWinnersModal, winners >>
  /\ UNCHANGED << selTimers, selectedCardIndex >>
  /\ UNCHANGED << outbox, reloaded, bingoCards, isTransmitting, paceTimers, reads,
                  calls, nextUid >>
  /\ UNCHANGED << connVars, pureVars >>

round_end(data) ==
  /\ ~reloaded
  /\ socket = "OPEN"
  /\ currentWord' = ""
  /\ roundResults' = [ winners |-> orEmpty(data.winners),
                       language |-> data.language ]
  /\ showRoundModal' = TRUE
  /\ event' = data
  /\ UNCHANGED << playerCount, gameStarted, showWinnersModal, winners >>
  /\ UNCHANGED << selTimers, selectedCardIndex, currentLanguage >>
  /\ UNCHANGED << outbox, reloaded, bingoCards, isTransmitting, paceTimers, reads,
                  calls, nextUid >>
  /\ UNCHANGED << connVars, pureVars >>

GameEndData == [ type : {"game_end"}, winners : WinnerLists \cup {Missing} ]

game_end(data) ==
  /\ ~reloaded
  /\ socket = "OPEN"
  /\ winners' = data.winners
  /\ showWinnersModal' = TRUE
  /\ showRoundModal' = FALSE
  /\ event' = data
  /\ UNCHANGED << playerCount, gameStarted, roundResults >>
  /\ UNCHANGED << outbox, reloaded, bingoCards, isTransmitting, paceTimers, reads,
                  calls, nextUid >>
  /\ UNCHANGED << connVars, roundVars, pureVars >>

\* default: of the switch
defaultCase(data) ==
  /\ event' = [ type |-> data.type ]
  /\ UNCHANGED << outbox, reloaded, bingoCards, isTransmitting, paceTimers, reads,
                  calls, nextUid >>
  /\ UNCHANGED << connVars, roundVars, gameVars, pureVars >>

KnownTypes == { "player_count", "game_started", "round_start", "word_selected",
               "round_end", "game_end" }

\* the case of switch (data.type) that runs: default with a game_end label
\* placed above it
switchCase_fallthrough(type) == IF type \in KnownTypes THEN type ELSE "game_end"

\* the case of switch (data.type) that runs
switchCase(type) == IF type \in KnownTypes THEN type ELSE "default"

handleWebSocketMessage(data) ==
  LET case == switchCase(data.type) IN
  CASE case = "player_count"  -> player_count(data.count)
    [] case = "game_started"  -> game_started
    [] case = "round_start"   -> round_start(data.language)
    [] case = "word_selected" -> word_selected(data)
    [] case = "round_end"     -> round_end(data)
    [] case = "game_end"      -> game_end(data)
    [] OTHER                  -> defaultCase(data)

\* payloads other than the six messages of the protocol: text that JSON.parse
\* rejects, the JSON text null (data.type throws), and a message of another
\* type, here one that carries the fields of a game_end
OtherPayloads ==
  { [ text |-> "invalid" ], [ text |-> "null" ] }
    \cup { [ text |-> "object", data |-> [ type |-> t, winners |-> w ] ] :
             t \in OtherTypes, w \in WinnerLists }

\* socket.onmessage: whatever JSON.parse or handleWebSocketMessage throws is
\* caught and logged
onmessage(raw) ==
  /\ ~reloaded
  /\ socket = "OPEN"
  /\ IF raw.text = "object"
     THEN handleWebSocketMessage(raw.data)
     ELSE /\ event' = [ type |-> raw.text ]
          /\ UNCHANGED << outbox, reloaded, bingoCards, isTransmitting,
                          paceTimers, reads, calls, nextUid >>
          /\ UNCHANGED << connVars, roundVars, gameVars, pureVars >>

\* the "Continuar" button of the round modal
closeRoundModal ==
  /\ ~reloaded
  /\ showRoundModal
  /\ showRoundModal' = FALSE
  /\ UNCHANGED << playerCount, gameStarted, showWinnersModal, winners,
                  roundResults >>
  /\ UNCHANGED << outbox, reloaded, bingoCards, isTransmitting, paceTimers, reads,
                  event, calls, nextUid >>
  /\ UNCHANGED << connVars, roundVars, pureVars >>

\* the oldest pending selector callback fires
selectorTimer ==
  /\ ~reloaded
  /\ UNCHANGED << gameVars, pureVars >>
  /\ UNCHANGED << event, calls >>
  /\ selTimers # <<>>
  /\ selTimers' = Tail(selTimers)
  /\ selectedCardIndex' =
       selectBestCard(Head(selTimers).updated, Head(selTimers).language)
  /\ UNCHANGED << outbox, reloaded, bingoCards, isTransmitting, paceTimers, reads,
                  currentWord, currentLanguage, nextUid >>
  /\ UNCHANGED connVars

(* --------------------------- specification ----------------------------- *)
Next ==
  \/ \E name \in Names : registerUser(name)
  \/ onopen
  \/ onerror
  \/ onclose
  \/ reloadCallback
  \/ \E form \in ManualForms : handleManualSubmit(form)
  \/ \E file \in Files : handleFileUpload(file)
  \/ \E k \in 1..Len(reads) : readerOnload(k)
  \/ pacingTimer
  \/ \E data \in WordSelectedData : wordSelectedPaced(data)
  \/ \E language \in Languages : round_start(language)
  \/ selectorTimer
  \/ \E count \in PlayerCounts : player_count(count)
  \/ game_started
  \/ \E data \in RoundEndData : round_end(data)
  \/ \E data \in GameEndData : game_end(data)
  \/ \E raw \in OtherPayloads : onmessage(raw)
  \/ closeRoundModal
  \/ handlePlay
  \/ \E index \in 0..(MaxCards - 1) : selectCard(index)

Spec == Init /\ [][Next]_vars

\* the connection, the card store and the transmission queue alone
NextQueue ==
  \/ \E name \in FirstNames : registerUser(name)
  \/ onopen
  \/ onerror
  \/ onclose
  \/ reloadCallback
  \/ \E form \in ManualForms : handleManualSubmit(form)
  \/ \E file \in Files : handleFileUpload(file)
  \/ \E k \in 1..Len(reads) : readerOnload(k)
  \/ pacingTimer

SpecQueue == Init /\ [][NextQueue]_vars

\* handleManualSubmit in the sessions that hold at most MaxTypedCards cards
typedSubmit(form) == nextUid <= MaxTypedCards /\ handleManualSubmit(form)

\* the connection with manual entry only
NextConn ==
  \/ \E name \in Names : registerUser(name)
  \/ onopen
  \/ onerror
  \/ onclose
  \/ reloadCallback
  \/ \E form \in ManualForms : typedSubmit(form)
  \/ pacingTimer

SpecConn == Init /\ [][NextConn]_vars

\* the same with the PLAY button: every message the client sends
NextPlay ==
  \/ NextConn
  \/ handlePlay

SpecPlay == Init /\ [][NextPlay]_vars

\* manual entry, the queue and the word_selected marking on an open channel
NextMarks ==
  \/ \E name \in FirstNames : registerUser(name)
  \/ onopen
  \/ \E form \in ManualForms : typedSubmit(form)
  \/ pacingTimer
  \/ \E data \in WordSelectedData : wordSelectedPaced(data)
  \/ selectorTimer

SpecMarks == Init /\ [][NextMarks]_vars

\* the same with round_start
NextRound ==
  \/ NextMarks
  \/ \E language \in Languages : round_start(language)

SpecRound == Init /\ [][NextRound]_vars

\* a burst of word_selected messages: the same as NextMarks with up to MaxBurst
\* selector callbacks pending
NextBurst ==
  \/ \E name \in FirstNames : registerUser(name)
  \/ onopen
  \/ \E form \in ManualForms : typedSubmit(form)
  \/ pacingTimer
  \/ \E data \in WordSelectedData : wordSelectedBurst(data)
  \/ selectorTimer

SpecBurst == Init /\ [][NextBurst]_vars

\* the phase of the game: the messages that move it and the round modal's
\* button, on an open channel
NextPhase ==
  \/ \E name \in FirstNames : registerUser(name)
  \/ onopen
  \/ \E data \in BroadcastWords : wordSelectedPaced(data)
  \/ selectorTimer
  \/ game_started
  \/ \E language \in Languages : round_start(language)
  \/ \E data \in RoundEndData : round_end(data)
  \/ \E data \in GameEndData : game_end(data)
  \/ closeRoundModal

SpecPhase == Init /\ [][NextPhase]_vars

\* a round over a store of typed cards: words are called, the round starts
\* and ends, players come and go (the pacing timer does not fire meanwhile)
NextFrame ==
  \/ \E name \in FirstNames : registerUser(name)
  \/ onopen
  \/ \E form \in ManualForms : typedSubmit(form)
  \/ \E data \in BroadcastWords : wordSelectedPaced(data)
  \/ selectorTimer
  \/ \E language \in Languages : round_start(language)
  \/ \E count \in PlayerCounts : player_count(count)
  \/ \E data \in RoundEndData : round_end(data)

SpecFrame == Init /\ [][NextFrame]_vars

\* payloads outside the protocol arriving in a game over typed cards
NextOther ==
  \/ \E name \in FirstNames : registerUser(name)
  \/ onopen
  \/ \E form \in ManualForms : typedSubmit(form)
  \/ \E data \in BroadcastWords : wordSelectedPaced(data)
  \/ selectorTimer
  \/ \E count \in PlayerCounts : player_count(count)
  \/ game_started
  \/ \E data \in GameEndData : game_end(data)
  \/ \E raw \in OtherPayloads : onmessage(raw)

SpecOther == Init /\ [][NextOther]_vars

\* readerOnload in the sessions that hold at most MaxTypedCards typed cards
\* and the cards of one file
typedOnload(k) == nextUid <= MaxTypedCards + 1 /\ readerOnload(k)

\* the selection over a store that file reads write to: typed cards, file
\* uploads, the words the server broadcasts, the deferred selection and the
\* clicks on the sidebar (the pacing timer does not fire meanwhile)
NextSelect ==
  \/ \E name \in FirstNames : registerUser(name)
  \/ onopen
  \/ \E form \in ManualForms : typedSubmit(form)
  \/ \E file \in Files : handleFileUpload(file)
  \/ \E k \in 1..Len(reads) : typedOnload(k)
  \/ \E data \in BroadcastWords : wordSelectedPaced(data)
  \/ selectorTimer
  \/ \E index \in 0..(MaxCards - 1) : selectCard(index)

SpecSelect == Init /\ [][NextSelect]_vars

\* detectLanguage applied alone to a word count
InitDetect ==
  /\ InitApp
  /\ detectArg \in 0..MaxWordCount
  /\ detected = NotDetected
  /\ parseArg = <<>>
  /\ parsed = NotParsed

applyDetectLanguage ==
  /\ detected = NotDetected
  /\ detected' = detectLanguage(detectArg)
  /\ UNCHANGED << detectArg, parseArg, parsed >>
  /\ UNCHANGED << outbox, reloaded, bingoCards, isTransmitting, paceTimers, reads,
                  event, calls, nextUid >>
  /\ UNCHANGED << connVars, roundVars, gameVars >>

SpecDetect == InitDetect /\ [][applyDetectLanguage]_vars

\* files of at most n lines
RECURSIVE Contents(_)
Contents(n) ==
  IF n = 0 THEN { <<>> }
  ELSE Contents(n - 1)
         \cup { Append(c, l) : c \in { d \in Contents(n - 1) : Len(d) = n - 1 },
                              l \in Lines }

\* parseTxtFile applied alone to a file
InitParse ==
  /\ InitApp
  /\ detectArg = 0
  /\ detected = NotDetected
  /\ parseArg \in Contents(MaxLines)
  /\ parsed = NotParsed

applyParseTxtFile ==
  /\ parsed = NotParsed
  /\ parsed' = parseTxtFile(parseArg, 1)
  /\ UNCHANGED << detectArg, detected, parseArg >>
  /\ UNCHANGED << outbox, reloaded, bingoCards, isTransmitting, paceTimers, reads,
                  event, calls, nextUid >>
  /\ UNCHANGED << connVars, roundVars, gameVars >>

SpecParse == InitParse /\ [][applyParseTxtFile]_vars

(* ------------------------------ claims --------------------------------- *)
\* uids of the bingo_card messages the connection observed, in order
RECURSIVE cardUids(_)
cardUids(box) ==
  IF box = <<>> THEN <<>>
  ELSE IF Head(box).type = "bingo_card"
       THEN <<Head(box).uid>> \o cardUids(Tail(box))
       ELSE cardUids(Tail(box))

storeUids(cards) == [ i \in 1..Len(cards) |-> cards[i].uid ]

\* position of the first occurrence of x in seq (0 when absent)
firstAt(seq, x) ==
  LET at == { i \in 1..Len(seq) : seq[i] = x }
  IN IF at = {} THEN 0 ELSE CHOOSE i \in at : \A j \in at : i <= j

\* C1: whatever the interleaving of manual entries, file reads, drain steps
\* and pacing timers, no card is passed to sendBingoCard more than once in a
\* session.
C1_SentAtMostOnce ==
  \A i, j \in 1..Len(calls) : calls[i].uid = calls[j].uid => i = j

\* C2: at most one drain (pacing timer) is pending at any time, and of two
\* cards of the store that were both sent, the one at the lower position was
\* sent first.
C2_OrderedOneAtATime ==
  /\ Len(paceTimers) <= 1
  /\ LET sent == cardUids(outbox) IN
     \A i, j \in 1..Len(bingoCards) :
       ( /\ i < j
         /\ firstAt(sent, bingoCards[i].uid) > 0
         /\ firstAt(sent, bingoCards[j].uid) > 0 )
       => firstAt(sent, bingoCards[i].uid) < firstAt(sent, bingoCards[j].uid)

\* C3: once the queue is quiescent (no pacing timer and no file read pending)
\* the bingo_card messages the connection observed are the cards of the store
\* in insertion order, each exactly once.  Stated for the sessions in which no
\* send was dropped on a channel that was not open.
C3_QuiescentSendsEqualStore ==
  ( /\ paceTimers = <<>>
    /\ reads = <<>>
    /\ \A i \in 1..Len(calls) : calls[i].open )
  => cardUids(outbox) = storeUids(bingoCards)

\* C4: a card added while a drain is in progress is picked up by that drain:
\* a drain never stops (no pacing timer left) while the store holds an
\* untransmitted card, so no card waits for a further addition.
C4_DrainPicksUpAdditions ==
  paceTimers = <<>> => ~hasUntransmitted(bingoCards)

\* C5: a card whose drain step ran while the channel was not open produced no
\* bingo_card message then and is never sent by a later drain step.
C5_NoRetryAfterDrop ==
  \A i \in 1..Len(calls) :
    ~calls[i].open => firstAt(cardUids(outbox), calls[i].uid) = 0

registerCount == Cardinality({ i \in 1..Len(outbox) : outbox[i].type = "register" })

\* C6: at most one channel is created per session; a call of setupWebSocket
\* while a channel exists creates no channel, leaves the installed handlers
\* (the name onopen sends) as they are and causes no second register message.
C6_OneChannelPerSession ==
  /\ channels <= 1
  /\ (channels = 0) = (socket = "null")
  /\ registerCount <= 1
  /\ \A i \in 1..Len(outbox) :
       outbox[i].type = "register" => outbox[i].id = registerName

\* C6 witness: registerUser ran twice with a non-empty name ("Ana", then
\* "Bo"); the channel, its handlers and the register message are the first's.
C6_Witness ==
  /\ userName = "Bo"
  /\ registerName = "Ana"
  /\ channels = 1
  /\ registerCount = 1

\* C7: after a channel error event as after a remote closure event the
\* connection is closed (socketReady false) and the 2-second reload is
\* scheduled.
C7_ErrorAndCloseScheduleReload ==
  socket \in {"FAILED", "CLOSED"} => (~socketReady /\ reloadTimers > 0)

\* the cards a word_selected message is about: id in card_ids, word in words
concerns(card, data) == card.id \in data.card_ids /\ Includes(card.words, data.word)

\* C8: a step that dispatches word_selected(word, card_ids) sets currentWord
\* to word; every card whose id is in card_ids and whose words contain word
\* has word marked afterwards; every other card keeps its markedWords; and
\* every card keeps its id, words, language and transmitted flag.
C8_WordSelectedEffect ==
  [][ Len(selTimers') > Len(selTimers) =>
        /\ event'.type = "word_selected"
        /\ currentWord' = event'.word
        /\ Len(bingoCards') = Len(bingoCards)
        /\ \A i \in 1..Len(bingoCards) :
             LET old == bingoCards[i]
                 new == bingoCards'[i]
             IN /\ new.id = old.id
                /\ new.words = old.words
                /\ new.language = old.language
                /\ new.transmitted = old.transmitted
                /\ concerns(old, event') => Includes(new.markedWords, event'.word)
                /\ ~concerns(old, event') => new.markedWords = old.markedWords
    ]_vars

\* C8 witness: the message dispatched last marked its word on one card of the
\* store and left another card, which it does not concern, without it.
C8_Witness ==
  /\ event.type = "word_selected"
  /\ currentWord = event.word
  /\ \E i, j \in 1..Len(bingoCards) :
       /\ concerns(bingoCards[i], event)
       /\ Includes(bingoCards[i].markedWords, event.word)
       /\ ~concerns(bingoCards[j], event)
       /\ ~Includes(bingoCards[j].markedWords, event.word)

noDuplicates(seq) == \A i, j \in 1..Len(seq) : seq[i] = seq[j] => i = j

\* C9: delivering a word_selected message a second time changes no card's
\* markedWords with respect to the first delivery, and no markedWords ever
\* holds a word twice.
C9_WordSelectedIdempotent ==
  /\ \A data \in WordSelectedData :
       LET once == markCards(bingoCards, data)
       IN markCards(once, data) = once
  /\ \A i \in 1..Len(bingoCards) : noDuplicates(bingoCards[i].markedWords)

\* C9 witness: the message dispatched last has marked a card that already
\* held another mark; delivering it again would find its word marked.
C9_Witness ==
  /\ event.type = "word_selected"
  /\ \E i \in 1..Len(bingoCards) :
       /\ concerns(bingoCards[i], event)
       /\ Len(bingoCards[i].markedWords) = 2
       /\ Includes(bingoCards[i].markedWords, event.word)

\* the selection the policy of the Best-Card Selector prescribes (0-based):
\* the first card with the highest count among the cards of the language when
\* one of them is marked, else the first card with the highest count overall,
\* else index 0
firstBest(counts, among) ==
  LET marked == { i \in among : counts[i].markedCount > 0 }
      best == { i \in marked :
                  \A j \in marked : counts[j].markedCount <= counts[i].markedCount }
  IN IF marked = {} THEN 0
     ELSE (CHOOSE i \in best : \A j \in best : i <= j) - 1

prescribedSelection(counts, language) ==
  LET ofLanguage == { i \in 1..Len(counts) : counts[i].language = language }
  IN IF \E i \in ofLanguage : counts[i].markedCount > 0
     THEN firstBest(counts, ofLanguage)
     ELSE firstBest(counts, 1..Len(counts))

\* C10: once the deferred selection of a word_selected message that carries
\* only word and card_ids has run (and no message was dispatched since), the
\* selected index is the one the policy prescribes for the round's current
\* language (set by the latest round_start).
C10_SelectsBestOfCurrentLanguage ==
  ( /\ event.type = "word_selected"
    /\ event.language = Undefined
    /\ selTimers = <<>> )
  => selectedCardIndex = prescribedSelection(markedCounts(bingoCards), currentLanguage)

\* the game-result modal is rendered (showWinnersModal && winners)
gameResultDisplayed == showWinnersModal /\ winners \notin {Null, Missing}

\* the phase, derived from gameStarted, the round-result display and the
\* game-result display
Phase ==
  IF gameResultDisplayed THEN "GameEnded"
  ELSE IF showRoundModal THEN "RoundEnded"
  ELSE IF gameStarted THEN "InProgress"
  ELSE "Lobby"

PhaseMoves ==
  { << "Lobby", "InProgress" >>, << "InProgress", "RoundEnded" >>,
    << "RoundEnded", "InProgress" >>, << "InProgress", "GameEnded" >>,
    << "RoundEnded", "GameEnded" >> }

\* C11: whatever messages arrive, the phase changes only along Lobby ->
\* InProgress -> RoundEnded -> InProgress -> ... -> GameEnded: no step takes
\* Lobby to RoundEnded or to GameEnded, and none leaves GameEnded.
C11_PhaseOrder ==
  [][ Phase' # Phase => << Phase, Phase' >> \in PhaseMoves ]_vars

\* C12: right after a game_end message that carries its winners is processed,
\* in whatever state it arrived, currentWord is empty, the winners are stored
\* and displayed, and the round-result display is off.
C12_GameEndEffect ==
  [][ ( /\ event' # event
        /\ event'.type = "game_end"
        /\ event'.winners \in WinnerLists )
      => ( /\ currentWord' = ""
           /\ winners' = event'.winners
           /\ gameResultDisplayed'
           /\ ~showRoundModal' ) ]_vars

\* C13: a payload that cannot be decoded, and a message whose type is none of
\* the six known ones, changes nothing: the round state, the Card Store, the
\* selected index, the player count, the results, the queue and the channel
\* (so that later messages are dispatched as before) are all as they were.
C13_OtherPayloadsChangeNothing ==
  [][ ( event' # event /\ event'.type \notin KnownTypes )
      => UNCHANGED << connVars, roundVars, gameVars, bingoCards, outbox, reloaded,
                      isTransmitting, paceTimers, reads, calls, nextUid >> ]_vars

\* an undecodable payload or a message of another type was the last one
\* dispatched, in a started game with cards, a called word and a game result
C13_Witness ==
  /\ event.type \in {"invalid", "null"} \cup OtherTypes
  /\ gameStarted
  /\ playerCount > 0
  /\ bingoCards # <<>>
  /\ currentWord # ""
  /\ showWinnersModal

\* the cards of a store by id and words
idAndWords(cards) ==
  [ i \in 1..Len(cards) |-> << cards[i].id, cards[i].words >> ]

isPrefix(short, long) ==
  /\ Len(short) <= Len(long)
  /\ \A i \in 1..Len(short) : short[i] = long[i]

\* C14: the Card Store is append-only: across every step of a session (a
\* manual entry, a file read completing, a drain step, a message) the cards
\* the store held, by id and words, are a prefix of the cards it holds next.
C14_AppendOnly ==
  [][ ~reloaded' => isPrefix(idAndWords(bingoCards), idAndWords(bingoCards')) ]_vars

\* C15: for every word count of the range, detectLanguage returns the one
\* language whose profile total equals it (24 spanish, 14 english, 20
\* portuguese, 10 dutch) and spanish for any other count; every profile has
\* total = rows * cols and no two profiles have the same total.
C15_DetectLanguage ==
  detected # NotDetected =>
    LET profiles == { LANGUAGE_CONFIGS[i] : i \in 1..Len(LANGUAGE_CONFIGS) }
        matching == { c \in profiles : c.total = detectArg }
    IN /\ \A c \in profiles : c.total = c.rows * c.cols
       /\ \A i, j \in 1..Len(LANGUAGE_CONFIGS) :
            LANGUAGE_CONFIGS[i].total = LANGUAGE_CONFIGS[j].total => i = j
       /\ matching # {} => matching = { c \in profiles : c.lang = detected }
       /\ matching = {} => detected = "spanish"
       /\ detected = ( CASE detectArg = 24 -> "spanish"
                         [] detectArg = 14 -> "english"
                         [] detectArg = 20 -> "portuguese"
                         [] detectArg = 10 -> "dutch"
                         [] OTHER -> "spanish" )

\* detectLanguage has turned ten words into dutch
C15_Witness == detectArg = 10 /\ detected = "dutch"

atLeastTwoTokens(line) == Len(line) >= 2

\* C16: parseTxtFile yields, in the order of the lines, one card for each line
\* of two tokens or more (its id the first token, its words the others, its
\* language detectLanguage of the number of words) and none for a blank or
\* one-token line; each card has transmitted = false and no marked word.
C16_ParseTxtFile ==
  parsed # NotParsed =>
    LET valid == SelectSeq(parseArg, atLeastTwoTokens)
    IN /\ Len(parsed) = Len(valid)
       /\ \A i \in 1..Len(valid) :
            /\ parsed[i].id = valid[i][1]
            /\ parsed[i].words = Tail(valid[i])
            /\ parsed[i].language = detectLanguage(Len(valid[i]) - 1)
            /\ parsed[i].transmitted = FALSE
            /\ parsed[i].markedWords = <<>>

\* a file of three lines, the second of one token, parsed into two cards
C16_Witness ==
  /\ parsed # NotParsed
  /\ Len(parseArg) = 3
  /\ Len(parseArg[2]) = 1
  /\ Len(parsed) = 2
  /\ parsed[2].language = "dutch"

\* C17: isTransmitting is true exactly while a pacing timer is pending; when
\* the last pending timer goes the flag is false; and a step that puts new
\* cards in the store while the flag is false starts a drain.
C17_FlagTracksDrain ==
  /\ [](isTransmitting <=> paceTimers # <<>>)
  /\ [][ ( ~reloaded' /\ paceTimers # <<>> /\ paceTimers' = <<>> )
          => ~isTransmitting' ]_vars
  /\ [][ ( ~reloaded' /\ ~isTransmitting /\ nextUid' > nextUid )
          => ( isTransmitting' /\ paceTimers' # <<>> ) ]_vars

\* the oldest pending selector callback runs in this step
selectorRuns == selTimers # <<>> /\ selTimers' = Tail(selTimers) /\ ~reloaded'

\* C18: when the deferred selection of a word_selected message runs, it
\* selects by the marked counts of the Card Store as it is at that moment,
\* with the marks of every message dispatched so far; so once the last
\* callback of a burst has run, the selected index is the selector applied to
\* the final store.
C18_SelectsFromCurrentStore ==
  [][ selectorRuns =>
        selectedCardIndex' =
          selectBestCard(markedCounts(bingoCards), Head(selTimers).language) ]_vars

\* the candidate set the selector uses: the cards of the language when one of
\* them is marked, else every card
candidates(counts, language) ==
  LET ofLanguage == { i \in 1..Len(counts) : counts[i].language = language }
  IN IF \E i \in ofLanguage : counts[i].markedCount > 0
     THEN ofLanguage ELSE 1..Len(counts)

\* C19: the index the selector chooses is the lowest one that attains the
\* highest marked count within the candidate set it uses: no candidate has
\* more marks than the chosen card, and none before it has as many.
C19_StableTieBreak ==
  [][ ( selectorRuns /\ Head(selTimers).updated # <<>> ) =>
        LET counts == Head(selTimers).updated
            among  == candidates(counts, Head(selTimers).language)
            chosen == selectedCardIndex' + 1
        IN /\ chosen \in among
           /\ \A j \in among : counts[j].markedCount <= counts[chosen].markedCount
           /\ \A j \in among :
                 counts[j].markedCount = counts[chosen].markedCount => chosen <= j
    ]_vars

\* the selector has run on two cards with the same number of marks, one at
\* least, and the first of them is selected
C19_Witness ==
  /\ event.type = "word_selected"
  /\ selTimers = <<>>
  /\ Len(bingoCards) = 2
  /\ Len(bingoCards[1].markedWords) > 0
  /\ Len(bingoCards[1].markedWords) = Len(bingoCards[2].markedWords)
  /\ selectedCardIndex = 0

\* C20: after a round_end message is processed, currentWord is empty, the
\* round's result (its language and its winners, none when the message has no
\* winners field) is stored and displayed, and the Card Store, the selected
\* index, currentLanguage and the player count are as they were.
C20_RoundEndFrame ==
  [][ ( event' # event /\ event'.type = "round_end" ) =>
        ( /\ currentWord' = ""
          /\ roundResults'.language = event'.language
          /\ roundResults'.winners =
               ( IF event'.winners = Missing THEN <<>> ELSE event'.winners )
          /\ showRoundModal'
          /\ UNCHANGED << bingoCards, selectedCardIndex, currentLanguage,
                          playerCount >> ) ]_vars

\* a round_end was dispatched last: its result is displayed over a store of
\* two cards with the second one selected, in a round with a language and a
\* player count
C20_Witness ==
  /\ event.type = "round_end"
  /\ event.winners = <<"Ana">>
  /\ roundResults.winners = <<"Ana">>
  /\ showRoundModal
  /\ currentWord = ""
  /\ Len(bingoCards) = 2
  /\ selectedCardIndex = 1
  /\ bingoCards[2].markedWords # <<>>
  /\ currentLanguage = "dutch"
  /\ playerCount = 2

\* C21: after a round_start message is processed in a started game whose
\* result is not displayed, currentLanguage is the message's language and the
\* phase is InProgress, also when the message arrived in phase RoundEnded.
C21_RoundStartInProgress ==
  [][ ( /\ event' # event
        /\ event'.type = "round_start"
        /\ gameStarted
        /\ Phase \in {"InProgress", "RoundEnded"} )
      => ( currentLanguage' = event'.language /\ Phase' = "InProgress" ) ]_vars

\* C22: in every reachable state every marked word of every card is one of
\* that card's words.
C22_MarkedWordsAreWords ==
  \A i \in 1..Len(bingoCards) :
    \A k \in 1..Len(bingoCards[i].markedWords) :
      Includes(bingoCards[i].words, bingoCards[i].markedWords[k])

\* the message dispatched last called a word for a card that does not hold
\* it, beside a card it marked: the first has no mark, the second has two
C22_Witness ==
  /\ event.type = "word_selected"
  /\ \E i, j \in 1..Len(bingoCards) :
       /\ bingoCards[i].id \in event.card_ids
       /\ ~Includes(bingoCards[i].words, event.word)
       /\ bingoCards[i].markedWords = <<>>
       /\ Len(bingoCards[j].markedWords) = 2
       /\ Includes(bingoCards[j].markedWords, event.word)

\* C23: the registration made in the start form with a non-empty name opens
\* the channel and sends nothing yet; the register message carrying that name
\* is sent in the step in which the channel opens, it is the only one, and it
\* is the first message the server observes: every bingo_card and play
\* message comes after it.  As long as only empty names were submitted there
\* is no channel and nothing was sent.
C23_RegisterFirst ==
  /\ []( showStartModal => ( socket = "null" /\ channels = 0 /\ outbox = <<>> ) )
  /\ []( outbox # <<>> =>
           ( Head(outbox).type = "register" /\ Head(outbox).id = registerName ) )
  /\ []( registerCount <= 1 /\ ( socket = "OPEN" => registerCount = 1 ) )
  /\ [][ ( showStartModal /\ ~showStartModal' ) =>
           ( /\ userName' # ""
             /\ registerName' = userName'
             /\ socket' = "CONNECTING"
             /\ outbox' = <<>> ) ]_vars
  /\ [][ ( socket = "CONNECTING" /\ socket' = "OPEN" ) =>
           ( /\ outbox = <<>>
             /\ Len(outbox') = 1
             /\ outbox'[1].type = "register"
             /\ outbox'[1].id = registerName ) ]_vars
  /\ [][ ( registerName # "" /\ ~reloaded' ) => registerName' = registerName ]_vars

\* a card typed before the channel opened was not sent; the register message
\* went out when it opened, then a bingo_card message and a play message
C23_Witness ==
  /\ registerName = "Ana"
  /\ \E i \in 1..Len(calls) : ~calls[i].open
  /\ Len(outbox) = 3
  /\ outbox[1].type = "register"
  /\ outbox[1].id = "Ana"
  /\ outbox[2].type = "bingo_card"
  /\ outbox[3].type = "play"

\* every word of seq is in other
allIn(seq, other) == \A k \in 1..Len(seq) : Includes(other, seq[k])

\* C24: across every step of a session each card object that stays in the
\* store keeps the marks it had and, once flagged transmitted, stays flagged,
\* also when a manual entry or a file read that completes later is
\* interleaved with drain steps and word_selected messages.
C24_CardStateMonotone ==
  [][ ~reloaded' =>
        \A i \in 1..Len(bingoCards) : \A j \in 1..Len(bingoCards') :
          bingoCards'[j].uid = bingoCards[i].uid =>
            /\ allIn(bingoCards[i].markedWords, bingoCards'[j].markedWords)
            /\ bingoCards[i].transmitted => bingoCards'[j].transmitted ]_vars

\* C25: in every reachable state with a non-empty Card Store the selected
\* index is an index of the store, whatever the interleaving of deferred
\* selections, clicks on a card and card additions.
C25_SelectedIndexValid ==
  bingoCards # <<>> =>
    ( 0 <= selectedCardIndex /\ selectedCardIndex < Len(bingoCards) )

====
